---- MODULE Spec2Model ----
(***************************************************************************)
(* Model of the grading, ranking and submission handlers of the            *)
(* recruiting-assessment backend (backend/app/routes/grading.py,           *)
(* backend/app/routes/candidate.py, backend/app/schemas.py,                *)
(* backend/app/models.py).                                                 *)
(*                                                                         *)
(* Numbers.  Weights are held in hundredths (0.34 is 34), raw scores and   *)
(* max scores as integers, totals in hundredths of a point (70.00 is       *)
(* 7000).  The float arithmetic of calculate_weighted_score is modelled    *)
(* by exact rational arithmetic followed by round-half-even to two         *)
(* decimals, which is what round(total, 2) yields for every input of the   *)
(* domains below (the binary representation error of the float sum is      *)
(* far below the distance of these sums to a rounding tie).                *)
(***************************************************************************)
EXTENDS Integers, Sequences, FiniteSets, TLC

VARIABLES
    rubrics,      \* assessment_rubrics: assessment id -> criteria list, or NoRubric
    invites,      \* assessment_invites: invite id -> row, or NoInvite
    repos,        \* candidate_repos: the invite ids that have a CandidateRepo row
    submissions,  \* submissions: the invite ids that have a Submission row
    scores,       \* submission_scores: set of SubmissionScore rows
    logs,         \* ai_grading_logs: sequence of AIGradingLog rows
    followups,    \* followup_emails: sequence of invite ids
    last,         \* the last request handled and its response
    agg,          \* one call of calculate_weighted_score: its arguments and result
    calls         \* the create_or_update_score requests in progress, per connection

vars == <<rubrics, invites, repos, submissions, scores, logs, followups, last, agg,
          calls>>

dbvars == <<rubrics, invites, repos, submissions, scores, logs, followups>>

(***************************************************************************)
(* Bounds of the model.                                                    *)
(***************************************************************************)
MaxCriteria == 3      \* longest rubric payload
MaxTopN == 3          \* largest top_n of a bulk send
MaxRank == 2          \* largest manual_rank of a reorder payload
MaxItems == 1         \* longest rankings list of a reorder payload
MaxFollowUps == 2     \* followup_emails rows kept
MaxLogs == 2          \* ai_grading_logs rows kept

(***************************************************************************)
(* Arithmetic helpers: exact rationals [n, d] with d > 0.                  *)
(***************************************************************************)
Abs(x) == IF x < 0 THEN -x ELSE x

RECURSIVE Gcd(_, _)
Gcd(a, b) == IF b = 0 THEN a ELSE Gcd(b, a % b)

Rat(n, d) ==
    LET s == IF d < 0 THEN -1 ELSE 1
        g == Gcd(Abs(n), Abs(d))
    IN  [n |-> (s * n) \div g, d |-> (s * d) \div g]

RatAdd(x, y) == Rat(x.n * y.d + y.n * x.d, x.d * y.d)

\* a total cut to two decimals instead of rounded
Round2Down(x) == (100 * x.n) \div x.d

\* round(total, 2) of a rational, in hundredths: nearest, ties to even.
Round2(x) ==
    LET h == 100 * x.n
        q == h \div x.d
        r == h % x.d
    IN  IF 2 * r < x.d THEN q
        ELSE IF 2 * r > x.d THEN q + 1
        ELSE IF q % 2 = 0 THEN q ELSE q + 1

(***************************************************************************)
(* calculate_weighted_score (grading.py 723-742, and its copy              *)
(* _calculate_weighted_score in candidate.py 294-312).                     *)
(* criteria_scores is a function name -> [score, max_score]; the rubric    *)
(* criteria are a sequence of [name, weight].  The result is               *)
(* [raised |-> TRUE] for the ZeroDivisionError of score / 0.0, otherwise   *)
(* the Decimal total in hundredths.                                        *)
(***************************************************************************)
Weighted(score_data, weight) ==
    \* (score / max_score) * 100 * weight, weight being hundredths
    Rat(score_data.score * weight, score_data.max_score)

Raised == [raised |-> TRUE, value |-> 0]

Returned(v) == [raised |-> FALSE, value |-> v]

\* the loop of 731-740 from criterion i on, and the return of 742
RECURSIVE weighted_loop(_, _, _, _)
weighted_loop(criteria_scores, rubric_criteria, i, total) ==
    IF i > Len(rubric_criteria) THEN Returned(Round2(total))
    ELSE LET name == rubric_criteria[i].name
             weight == rubric_criteria[i].weight
         IN  IF name \in DOMAIN criteria_scores
             THEN IF criteria_scores[name].max_score = 0
                  THEN Raised
                  ELSE weighted_loop(criteria_scores, rubric_criteria, i + 1,
                           RatAdd(total, Weighted(criteria_scores[name], weight)))
             ELSE weighted_loop(criteria_scores, rubric_criteria, i + 1, total)

\* criteria_scores[name] without the test "name in criteria_scores": a KeyError
calculate_weighted_score_strict(criteria_scores, rubric_criteria) ==
    IF \E k \in DOMAIN rubric_criteria :
           rubric_criteria[k].name \notin DOMAIN criteria_scores
    THEN Raised
    ELSE weighted_loop(criteria_scores, rubric_criteria, 1, Rat(0, 1))

calculate_weighted_score(criteria_scores, rubric_criteria) ==
    weighted_loop(criteria_scores, rubric_criteria, 1, Rat(0, 1))

(***************************************************************************)
(* Request inputs of the aggregator: every criteria_scores mapping over    *)
(* ScoreNames and every rubric that validate_weights accepts.              *)
(***************************************************************************)
RubricNames == {"a", "b", "c"}

ScoreNames == {"a", "b"}

OtherName == "z"                    \* never a rubric criterion

WeightValues == {33, 50, 100}

ScoreValues == {0, 3, 50, 80}

MaxScoreValues == {0, 3, 5, 100}

CriterionScore == [score : ScoreValues, max_score : MaxScoreValues]

Score(score, max_score) == [score |-> score, max_score |-> max_score]

\* No branch of the aggregator reads the record of a name outside the rubric: "z"
\* is absent, or present with a max_score of 0, or present with a positive one.
OtherScores == {Score(3, 0), Score(80, 100)}

WithOther(scores_, other) ==
    [n \in DOMAIN scores_ \cup {OtherName} |->
        IF n = OtherName THEN other ELSE scores_[n]]

CriteriaScores ==
    LET rubric_named == UNION {[N -> CriterionScore] : N \in SUBSET ScoreNames}
    IN  rubric_named \cup
        {WithOther(cs, other) : cs \in rubric_named, other \in OtherScores}

RubricCriterion == [name : RubricNames, weight : WeightValues]

RECURSIVE SumWeights(_)
SumWeights(criteria) ==
    IF criteria = <<>> THEN 0
    ELSE Head(criteria).weight + SumWeights(Tail(criteria))

\* RubricCreate.validate_weights: TRUE when it raises ValueError.
validate_weights_loose(criteria) == ~(SumWeights(criteria) <= 101)

validate_weights(criteria) ==
    ~(99 <= SumWeights(criteria) /\ SumWeights(criteria) <= 101)

ValidRubrics ==
    {r \in UNION {[1..k -> RubricCriterion] : k \in 1..MaxCriteria} :
        ~validate_weights(r)}

Restrict(f, S) == [x \in S |-> f[x]]

(***************************************************************************)
(* The aggregator on its own: one call for a full mapping and one for the  *)
(* same scores restricted to a subset of the names.                        *)
(***************************************************************************)
NoCall == [called |-> FALSE, criteria_scores |-> <<>>, rubric |-> <<>>,
           graded |-> {}, full |-> Returned(0), part |-> Returned(0)]

Aggregate ==
    /\ ~agg.called
    /\ \E sub \in SUBSET (DOMAIN agg.criteria_scores) :
          agg' = [agg EXCEPT
                    !.called = TRUE,
                    !.graded = sub,
                    !.full = calculate_weighted_score(agg.criteria_scores, agg.rubric),
                    !.part = calculate_weighted_score(
                                 Restrict(agg.criteria_scores, sub), agg.rubric)]
    /\ UNCHANGED <<dbvars, last, calls>>

(***************************************************************************)
(* The database.  Assessments, candidates and invites are created by       *)
(* routes outside this model; the rows below exist from the start.         *)
(***************************************************************************)
Assessments == {"A1", "A2"}

AssessmentIds == Assessments \cup {"A0"}          \* "A0": no such assessment

\* Assessment.next_stage_assessment_id
next_stage_assessment_id(a) == IF a = "A1" THEN "A2" ELSE "none"

InviteIds == {"i1", "i2", "i3", "n1", "n2", "n3"}

\* late: now > start_deadline_at; overdue: now > complete_deadline_at
NoInvite == [assessment_id |-> "none", candidate_id |-> "none",
             status |-> "none", late |-> FALSE, overdue |-> FALSE]

Invite(a, c, s) == [assessment_id |-> a, candidate_id |-> c, status |-> s,
                    late |-> FALSE, overdue |-> FALSE]

\* The next-stage invite id a candidate gets (uuid4 in the code).
NextInviteId(c) == CASE c = "c1" -> "n1" [] c = "c2" -> "n2" [] OTHER -> "n3"

InitInvites ==
    [i \in InviteIds |->
        CASE i = "i1" -> Invite("A1", "c1", "pending")
          [] i = "i2" -> Invite("A1", "c2", "pending")
          [] i = "i3" -> Invite("A1", "c3", "pending")
          [] i = "n3" -> Invite("A2", "c3", "pending")
          [] OTHER -> NoInvite]

NoRequest == [op |-> "none", id |-> "none", code |-> 0, arg |-> <<>>, out |-> <<>>]

Response(op, id, code, arg, out) ==
    [op |-> op, id |-> id, code |-> code, arg |-> arg, out |-> out]

InitDB ==
    /\ rubrics = {}
    /\ invites = InitInvites
    /\ repos = {}
    /\ submissions = {}
    /\ scores = {}
    /\ logs = <<>>
    /\ followups = <<>>
    /\ last = NoRequest

\* query(...).filter(...).first() on a table held as a set of rows
RubricOf(a) == {r \in rubrics : r.assessment_id = a}

ScoreOf(i) == {r \in scores : r.invite_id = i}

First(rows) == CHOOSE r \in rows : TRUE

\* Numeric(5, 2): a total_score of 1000.00 or more (in hundredths) cannot be stored
NumericLimit == 100000

NumericOverflow(total) == Abs(total) >= NumericLimit

(***************************************************************************)
(* create_rubric (grading.py 42-81).  RubricCriterion.weight is            *)
(* Field(gt=0, le=1): a payload that violates it never reaches the         *)
(* handler (422).                                                          *)
(***************************************************************************)
FieldsValid(criteria) ==
    \A k \in 1..Len(criteria) : criteria[k].weight > 0 /\ criteria[k].weight <= 100

Criterion(n, w) == [name |-> n, weight |-> w]

RubricPayloads ==
    { <<Criterion("a", 100)>>, <<Criterion("a", 50), Criterion("b", 51)>>,
      <<Criterion("a", 98)>>, <<Criterion("a", 50), Criterion("b", 52)>>, <<>>,
      <<Criterion("a", 0), Criterion("b", 100)>> }

create_rubric(assessment_id, criteria) ==
    /\ Len(criteria) <= MaxCriteria
    /\ UNCHANGED <<invites, repos, submissions, scores, logs, followups, agg, calls>>
    /\ IF ~FieldsValid(criteria)
       THEN /\ last' = Response("create_rubric", assessment_id, 422, criteria, <<>>)
            /\ UNCHANGED rubrics
       ELSE IF validate_weights(criteria)
       THEN /\ last' = Response("create_rubric", assessment_id, 400, criteria, <<>>)
            /\ UNCHANGED rubrics
       ELSE IF assessment_id \notin Assessments
       THEN /\ last' = Response("create_rubric", assessment_id, 404, criteria, <<>>)
            /\ UNCHANGED rubrics
       ELSE /\ last' = Response("create_rubric", assessment_id, 201, criteria, <<>>)
            /\ rubrics' = (rubrics \ RubricOf(assessment_id))
                            \cup {[assessment_id |-> assessment_id, criteria |-> criteria]}

\* delete_rubric (grading.py 97-106); the row is named by its assessment here
delete_rubric(assessment_id) ==
    /\ UNCHANGED <<invites, repos, submissions, scores, logs, followups, agg, calls>>
    /\ IF RubricOf(assessment_id) = {}
       THEN /\ last' = Response("delete_rubric", assessment_id, 404, <<>>, <<>>)
            /\ UNCHANGED rubrics
       ELSE /\ last' = Response("delete_rubric", assessment_id, 204, <<>>, <<>>)
            /\ rubrics' = rubrics \ RubricOf(assessment_id)

(***************************************************************************)
(* create_or_update_score (grading.py 113-170).  The response recorded in  *)
(* last carries, in out, the row the call replaced (none: it created one). *)
(***************************************************************************)
NoRank == <<>>                   \* manual_rank IS NULL; <<k>> is rank k

SubmissionScore(invite_id, criteria_scores, total_score, graded_by, notes, manual_rank) ==
    [invite_id |-> invite_id, criteria_scores |-> criteria_scores,
     total_score |-> total_score, graded_by |-> graded_by, notes |-> notes,
     manual_rank |-> manual_rank]

\* the update branch (146-155) merging per criterion instead of replacing
UpdatedScoreMerge(existing, criteria_scores, total_score, graded_by, notes) ==
    [existing EXCEPT
        !.criteria_scores =
            [n \in DOMAIN existing.criteria_scores \cup DOMAIN criteria_scores |->
                IF n \in DOMAIN criteria_scores THEN criteria_scores[n]
                ELSE existing.criteria_scores[n]],
        !.total_score = total_score, !.graded_by = graded_by, !.notes = notes]

\* the update branch (146-155) leaving the previous total_score in place
UpdatedScoreKeepTotal(existing, criteria_scores, total_score, graded_by, notes) ==
    [existing EXCEPT !.criteria_scores = criteria_scores,
                     !.graded_by = graded_by,
                     !.notes = notes]

\* the update branch (146-155) clearing manual_rank as a new row would
UpdatedScoreResetRank(existing, criteria_scores, total_score, graded_by, notes) ==
    [existing EXCEPT !.criteria_scores = criteria_scores,
                     !.total_score = total_score,
                     !.graded_by = graded_by,
                     !.notes = notes,
                     !.manual_rank = <<>>]

\* the update branch (146-155)
UpdatedScore(existing, criteria_scores, total_score, graded_by, notes) ==
    [existing EXCEPT !.criteria_scores = criteria_scores,
                     !.total_score = total_score,
                     !.graded_by = graded_by,
                     !.notes = notes]

\* create_or_update_score without the rubric check of 127-128: an assessment
\* without a rubric is graded as if its rubric had no criteria
create_or_update_score_unchecked(invite_id, criteria_scores, graded_by, notes) ==
    LET op == "create_or_update_score"
        existing == First(ScoreOf(invite_id))
    IN
    /\ UNCHANGED <<rubrics, invites, repos, submissions, logs, followups, agg, calls>>
    /\ IF invite_id \notin InviteIds \/ invites[invite_id] = NoInvite
       THEN /\ last' = Response(op, invite_id, 404, criteria_scores, <<>>)
            /\ UNCHANGED scores
       ELSE /\ last' = Response(op, invite_id, 201, criteria_scores,
                                 IF ScoreOf(invite_id) # {} THEN <<existing>> ELSE <<>>)
            /\ IF ScoreOf(invite_id) # {}
               THEN scores' = (scores \ {existing}) \cup
                        {UpdatedScore(existing, criteria_scores, 0, graded_by, notes)}
               ELSE scores' = scores \cup
                        {SubmissionScore(invite_id, criteria_scores, 0,
                                         graded_by, notes, NoRank)}

create_or_update_score(invite_id, criteria_scores, graded_by, notes) ==
    LET op == "create_or_update_score"
        rubric == First(RubricOf(invites[invite_id].assessment_id))
        total == calculate_weighted_score(criteria_scores, rubric.criteria)
        existing == First(ScoreOf(invite_id))
    IN
    /\ UNCHANGED <<rubrics, invites, repos, submissions, logs, followups, agg, calls>>
    /\ IF invite_id \notin InviteIds \/ invites[invite_id] = NoInvite
       THEN /\ last' = Response(op, invite_id, 404, criteria_scores, <<>>)
            /\ UNCHANGED scores
       ELSE IF RubricOf(invites[invite_id].assessment_id) = {}
       THEN /\ last' = Response(op, invite_id, 404, criteria_scores, <<>>)
            /\ UNCHANGED scores
       ELSE IF total.raised \/ NumericOverflow(total.value)
       THEN \* ZeroDivisionError, or the commit refused by Numeric(5, 2)
            /\ last' = Response(op, invite_id, 500, criteria_scores, <<>>)
            /\ UNCHANGED scores
       ELSE /\ last' = Response(op, invite_id, 201, criteria_scores,
                                 IF ScoreOf(invite_id) # {} THEN <<existing>> ELSE <<>>)
            /\ IF ScoreOf(invite_id) # {}
               THEN scores' = (scores \ {existing}) \cup
                        {UpdatedScore(existing, criteria_scores, total.value,
                                      graded_by, notes)}
               ELSE scores' = scores \cup
                        {SubmissionScore(invite_id, criteria_scores, total.value,
                                         graded_by, notes, NoRank)}

(***************************************************************************)
(* create_or_update_score as two requests can interleave it: each request   *)
(* runs in its own session and transaction (READ COMMITTED).  score_begin  *)
(* is the handler up to the query for the existing row (118-139),           *)
(* score_commit the assignment or insert and db.commit() (146-170).  The    *)
(* flush of an update writes the columns whose value differs from the one  *)
(* the session loaded; the row lock and the unique index on invite_id order *)
(* two writers by their commits.                                            *)
(***************************************************************************)
CallIds == {"p", "q"}

NoCallInProgress ==
    [pc |-> "idle", invite_id |-> "none", criteria_scores |-> <<>>,
     total_score |-> 0, graded_by |-> "none", notes |-> "none",
     existing |-> <<>>, code |-> 0]

NoCalls == [c \in CallIds |-> NoCallInProgress]

Graders == {"admin", "alice"}

\* the row the flush of 153 leaves: current is the committed row, loaded the row
\* the session read at 137-139
FlushedUpdate(current, loaded, call) ==
    [current EXCEPT
        !.criteria_scores = IF call.criteria_scores # loaded.criteria_scores
                            THEN call.criteria_scores ELSE @,
        !.total_score = IF call.total_score # loaded.total_score
                        THEN call.total_score ELSE @,
        !.graded_by = IF call.graded_by # loaded.graded_by
                      THEN call.graded_by ELSE @,
        !.notes = IF call.notes # loaded.notes THEN call.notes ELSE @]

score_begin(c, invite_id, criteria_scores, graded_by, notes) ==
    LET op == "create_or_update_score"
        rubric == First(RubricOf(invites[invite_id].assessment_id))
        total == calculate_weighted_score(criteria_scores, rubric.criteria)
        call == [NoCallInProgress EXCEPT !.invite_id = invite_id,
                                         !.criteria_scores = criteria_scores,
                                         !.graded_by = graded_by,
                                         !.notes = notes]
    IN
    /\ calls[c].pc # "read"
    /\ UNCHANGED <<dbvars, agg>>
    /\ IF \/ invite_id \notin InviteIds
          \/ invites[invite_id] = NoInvite
          \/ RubricOf(invites[invite_id].assessment_id) = {}
       THEN /\ calls' = [calls EXCEPT ![c] = [call EXCEPT !.pc = "done", !.code = 404]]
            /\ last' = Response(op, invite_id, 404, criteria_scores, <<>>)
       ELSE IF total.raised
       THEN /\ calls' = [calls EXCEPT ![c] = [call EXCEPT !.pc = "done", !.code = 500]]
            /\ last' = Response(op, invite_id, 500, criteria_scores, <<>>)
       ELSE /\ calls' = [calls EXCEPT ![c] =
                           [call EXCEPT !.pc = "read",
                                        !.total_score = total.value,
                                        !.existing =
                                            IF ScoreOf(invite_id) = {} THEN <<>>
                                            ELSE <<First(ScoreOf(invite_id))>>]]
            /\ UNCHANGED last

score_commit(c) ==
    LET op == "create_or_update_score"
        call == calls[c]
        done(code) == [calls EXCEPT ![c].pc = "done", ![c].code = code]
    IN
    /\ call.pc = "read"
    /\ UNCHANGED <<rubrics, invites, repos, submissions, logs, followups, agg>>
    /\ IF call.existing # <<>>
       THEN IF ScoreOf(call.invite_id) = {} \/ NumericOverflow(call.total_score)
            THEN \* the UPDATE matches no row, or Numeric(5, 2) refuses it
                 /\ calls' = done(500)
                 /\ last' = Response(op, call.invite_id, 500, call.criteria_scores, <<>>)
                 /\ UNCHANGED scores
            ELSE /\ calls' = done(201)
                 /\ last' = Response(op, call.invite_id, 201, call.criteria_scores,
                                     <<First(ScoreOf(call.invite_id))>>)
                 /\ scores' = (scores \ ScoreOf(call.invite_id)) \cup
                        {FlushedUpdate(First(ScoreOf(call.invite_id)),
                                       call.existing[1], call)}
       ELSE IF ScoreOf(call.invite_id) # {} \/ NumericOverflow(call.total_score)
            THEN \* IntegrityError of the unique index, or Numeric(5, 2)
                 /\ calls' = done(500)
                 /\ last' = Response(op, call.invite_id, 500, call.criteria_scores, <<>>)
                 /\ UNCHANGED scores
            ELSE /\ calls' = done(201)
                 /\ last' = Response(op, call.invite_id, 201, call.criteria_scores, <<>>)
                 /\ scores' = scores \cup
                        {SubmissionScore(call.invite_id, call.criteria_scores,
                                         call.total_score, call.graded_by,
                                         call.notes, NoRank)}

\* delete_score removing the invite's AI grading logs with the score
delete_score_cascading(invite_id) ==
    /\ UNCHANGED <<rubrics, invites, repos, submissions, followups, agg, calls>>
    /\ IF ScoreOf(invite_id) = {}
       THEN /\ last' = Response("delete_score", invite_id, 404, <<>>, <<>>)
            /\ UNCHANGED <<scores, logs>>
       ELSE /\ last' = Response("delete_score", invite_id, 204, <<>>, <<>>)
            /\ scores' = scores \ {First(ScoreOf(invite_id))}
            /\ logs' = SelectSeq(logs, LAMBDA row : row.invite_id # invite_id)

\* delete_score (grading.py 186-195); the row is named by its invite here
delete_score(invite_id) ==
    /\ UNCHANGED <<rubrics, invites, repos, submissions, logs, followups, agg, calls>>
    /\ IF ScoreOf(invite_id) = {}
       THEN /\ last' = Response("delete_score", invite_id, 404, <<>>, <<>>)
            /\ UNCHANGED scores
       ELSE /\ last' = Response("delete_score", invite_id, 204, <<>>, <<>>)
            /\ scores' = scores \ {First(ScoreOf(invite_id))}

(***************************************************************************)
(* Candidate routes (candidate.py).  An invite is addressed by its slug,   *)
(* modelled by its id.                                                     *)
(***************************************************************************)
\* Time passes: now > start_deadline_at from here on.
StartDeadlinePasses(invite_id) ==
    /\ invites[invite_id] # NoInvite
    /\ ~invites[invite_id].late
    /\ invites' = [invites EXCEPT ![invite_id].late = TRUE]
    /\ last' = NoRequest
    /\ UNCHANGED <<rubrics, repos, submissions, scores, logs, followups, agg, calls>>

\* Time passes: now > complete_deadline_at, which start_assessment set (137), from
\* here on.
CompleteDeadlinePasses(invite_id) ==
    /\ invites[invite_id].status = "started"
    /\ ~invites[invite_id].overdue
    /\ invites' = [invites EXCEPT ![invite_id].overdue = TRUE]
    /\ last' = NoRequest
    /\ UNCHANGED <<rubrics, repos, submissions, scores, logs, followups, agg, calls>>

\* start_assessment without the check of 100-101 for a started or submitted invite
start_assessment_again(invite_id, github_ok) ==
    LET op == "start_assessment" IN
    /\ UNCHANGED <<rubrics, submissions, scores, logs, followups, agg, calls>>
    /\ IF invite_id \notin InviteIds \/ invites[invite_id] = NoInvite
       THEN /\ last' = Response(op, invite_id, 404, <<>>, <<>>)
            /\ UNCHANGED <<invites, repos>>
       ELSE IF invites[invite_id].late
       THEN /\ last' = Response(op, invite_id, 400, <<>>, <<>>)
            /\ invites' = [invites EXCEPT ![invite_id].status = "expired"]
            /\ UNCHANGED repos
       ELSE IF ~github_ok
       THEN /\ last' = Response(op, invite_id, 502, <<>>, <<>>)
            /\ UNCHANGED <<invites, repos>>
       ELSE /\ last' = Response(op, invite_id, 200, <<>>, <<>>)
            /\ invites' = [invites EXCEPT ![invite_id].status = "started"]
            /\ repos' = repos \cup {invite_id}

\* start_assessment (candidate.py 86-171); github_ok: the repository was provisioned
start_assessment(invite_id, github_ok) ==
    LET op == "start_assessment" IN
    /\ UNCHANGED <<rubrics, submissions, scores, logs, followups, agg, calls>>
    /\ IF invite_id \notin InviteIds \/ invites[invite_id] = NoInvite
       THEN /\ last' = Response(op, invite_id, 404, <<>>, <<>>)
            /\ UNCHANGED <<invites, repos>>
       ELSE IF invites[invite_id].status \in {"started", "submitted"}
       THEN /\ last' = Response(op, invite_id, 400, <<>>, <<>>)
            /\ UNCHANGED <<invites, repos>>
       ELSE IF invites[invite_id].late
       THEN /\ last' = Response(op, invite_id, 400, <<>>, <<>>)
            /\ invites' = [invites EXCEPT ![invite_id].status = "expired"]
            /\ UNCHANGED repos
       ELSE IF ~github_ok
       THEN /\ last' = Response(op, invite_id, 502, <<>>, <<>>)
            /\ UNCHANGED <<invites, repos>>
       ELSE /\ last' = Response(op, invite_id, 200, <<>>, <<>>)
            /\ invites' = [invites EXCEPT ![invite_id].status = "started"]
            /\ repos' = repos \cup {invite_id}

(***************************************************************************)
(* _auto_grade_submission (candidate.py 174-291), called by                *)
(* submit_assessment after its commit.  provider is "github_error",        *)
(* "ai_error" or "ok" (the source-control fetch and the AI call), result   *)
(* the criteria_scores the AI returned.  The value is the tables scores    *)
(* and logs afterwards and what happened.                                  *)
(***************************************************************************)
AIGradingLog(invite_id, kind) == [invite_id |-> invite_id, kind |-> kind]

AutoGrader == "AI Auto-Grading"

AutoNotes == "Automatically generated by AI upon submission."

AutoGradeOutcome(sc, lg, what) == [scores |-> sc, logs |-> lg, what |-> what]

\* _auto_grade_submission on a table without the unique constraint on invite_id
auto_grade_submission_no_unique(invite_id, provider, result) ==
    LET rubric == First(RubricOf(invites[invite_id].assessment_id))
        total == calculate_weighted_score(result, rubric.criteria)
    IN
    IF RubricOf(invites[invite_id].assessment_id) = {} \/ invite_id \notin repos
    THEN AutoGradeOutcome(scores, logs, "skipped")
    ELSE IF provider # "ok" \/ total.raised \/ NumericOverflow(total.value)
    THEN AutoGradeOutcome(scores,
                          Append(logs, AIGradingLog(invite_id, "error")), "error")
    ELSE AutoGradeOutcome(
             scores \cup {SubmissionScore(invite_id, result, total.value,
                                          AutoGrader, AutoNotes, NoRank)},
             Append(logs, AIGradingLog(invite_id, "graded")),
             "graded")

\* _auto_grade_submission swallowing a failure without the error log of 277-289
auto_grade_submission_silent(invite_id, provider, result) ==
    LET rubric == First(RubricOf(invites[invite_id].assessment_id))
        total == calculate_weighted_score(result, rubric.criteria)
    IN
    IF RubricOf(invites[invite_id].assessment_id) = {} \/ invite_id \notin repos
    THEN AutoGradeOutcome(scores, logs, "skipped")
    ELSE IF \/ provider # "ok"
            \/ total.raised
            \/ ScoreOf(invite_id) # {}
            \/ NumericOverflow(total.value)
    THEN AutoGradeOutcome(scores, logs, "error")
    ELSE AutoGradeOutcome(
             scores \cup {SubmissionScore(invite_id, result, total.value,
                                          AutoGrader, AutoNotes, NoRank)},
             Append(logs, AIGradingLog(invite_id, "graded")),
             "graded")

auto_grade_submission(invite_id, provider, result) ==
    LET rubric == First(RubricOf(invites[invite_id].assessment_id))
        total == calculate_weighted_score(result, rubric.criteria)
        failed == AutoGradeOutcome(scores,
                                   Append(logs, AIGradingLog(invite_id, "error")),
                                   "error")
    IN
    IF RubricOf(invites[invite_id].assessment_id) = {}
    THEN AutoGradeOutcome(scores, logs, "skipped")
    ELSE IF invite_id \notin repos
    THEN AutoGradeOutcome(scores, logs, "skipped")
    ELSE IF provider # "ok"
    THEN failed
    ELSE IF total.raised
    THEN failed                                   \* ZeroDivisionError
    ELSE IF ScoreOf(invite_id) # {} \/ NumericOverflow(total.value)
    THEN failed                                   \* the commit fails and rolls back
    ELSE AutoGradeOutcome(
             scores \cup {SubmissionScore(invite_id, result, total.value,
                                          AutoGrader, AutoNotes, NoRank)},
             Append(logs, AIGradingLog(invite_id, "graded")),
             "graded")

\* submit_assessment letting a failure of the automatic grading fail the request
submit_assessment_blocking(invite_id, provider, result) ==
    LET op == "submit_assessment"
        graded == auto_grade_submission(invite_id, provider, result)
    IN
    /\ UNCHANGED <<rubrics, repos, followups, agg, calls>>
    /\ IF invite_id \notin InviteIds \/ invites[invite_id] = NoInvite
       THEN /\ last' = Response(op, invite_id, 404, result, <<>>)
            /\ UNCHANGED <<invites, submissions, scores, logs>>
       ELSE IF invites[invite_id].status # "started" \/ invite_id \notin repos
       THEN /\ last' = Response(op, invite_id, 400, result, <<>>)
            /\ UNCHANGED <<invites, submissions, scores, logs>>
       ELSE IF graded.what = "error"
       THEN /\ last' = Response(op, invite_id, 500, result, <<>>)
            /\ UNCHANGED <<invites, submissions, scores, logs>>
       ELSE /\ last' = Response(op, invite_id, 200, result, graded.what)
            /\ invites' = [invites EXCEPT ![invite_id].status = "submitted"]
            /\ submissions' = submissions \cup {invite_id}
            /\ scores' = graded.scores
            /\ logs' = graded.logs

\* submit_assessment (candidate.py 315-364)
submit_assessment(invite_id, provider, result) ==
    LET op == "submit_assessment"
        graded == auto_grade_submission(invite_id, provider, result)
    IN
    /\ UNCHANGED <<rubrics, repos, followups, agg, calls>>
    /\ IF invite_id \notin InviteIds \/ invites[invite_id] = NoInvite
       THEN /\ last' = Response(op, invite_id, 404, result, <<>>)
            /\ UNCHANGED <<invites, submissions, scores, logs>>
       ELSE IF invites[invite_id].status # "started"
       THEN /\ last' = Response(op, invite_id, 400, result, <<>>)
            /\ UNCHANGED <<invites, submissions, scores, logs>>
       ELSE IF invite_id \notin repos
       THEN /\ last' = Response(op, invite_id, 400, result, <<>>)
            /\ UNCHANGED <<invites, submissions, scores, logs>>
       ELSE /\ last' = Response(op, invite_id, 200, result, graded.what)
            /\ invites' = [invites EXCEPT ![invite_id].status = "submitted"]
            /\ submissions' = submissions \cup {invite_id}
            /\ scores' = graded.scores
            /\ logs' = graded.logs

(***************************************************************************)
(* ai_grade_submission (grading.py 202-287).  criteria_to_grade is the set  *)
(* of names the operator asks for, provider and result as in the automatic *)
(* grading.  analyze_code_quality raises when no rubric criterion is among *)
(* criteria_to_grade (ai_grading_service.py 50-56).                        *)
(***************************************************************************)
\* ai_grade_submission recording its failures as the automatic grading does
ai_grade_submission_logging(invite_id, criteria_to_grade, provider, result) ==
    LET op == "ai_grade_submission" IN
    /\ UNCHANGED <<rubrics, invites, repos, submissions, scores, followups, agg, calls>>
    /\ IF \/ invite_id \notin InviteIds
          \/ invites[invite_id] = NoInvite
          \/ invites[invite_id].status # "submitted"
          \/ RubricOf(invites[invite_id].assessment_id) = {}
          \/ invite_id \notin repos
       THEN /\ last' = Response(op, invite_id, 404, criteria_to_grade, <<>>)
            /\ UNCHANGED logs
       ELSE IF provider # "ok"
       THEN /\ Len(logs) < MaxLogs
            /\ last' = Response(op, invite_id, 500, criteria_to_grade, <<>>)
            /\ logs' = Append(logs, AIGradingLog(invite_id, "error"))
       ELSE /\ Len(logs) < MaxLogs
            /\ last' = Response(op, invite_id, 200, criteria_to_grade, result)
            /\ logs' = Append(logs, AIGradingLog(invite_id, "graded"))

\* ai_grade_submission without the status check of 211-212
ai_grade_submission_any_status(invite_id, criteria_to_grade, provider, result) ==
    LET op == "ai_grade_submission"
        rubric == First(RubricOf(invites[invite_id].assessment_id))
        criteria_to_analyze ==
            {k \in DOMAIN rubric.criteria : rubric.criteria[k].name \in criteria_to_grade}
    IN
    /\ UNCHANGED <<rubrics, invites, repos, submissions, scores, followups, agg, calls>>
    /\ IF \/ invite_id \notin InviteIds
          \/ invites[invite_id] = NoInvite
          \/ RubricOf(invites[invite_id].assessment_id) = {}
          \/ invite_id \notin repos
       THEN /\ last' = Response(op, invite_id, 404, criteria_to_grade, <<>>)
            /\ UNCHANGED logs
       ELSE IF provider # "ok" \/ criteria_to_analyze = {}
       THEN /\ last' = Response(op, invite_id, 500, criteria_to_grade, <<>>)
            /\ UNCHANGED logs
       ELSE /\ Len(logs) < MaxLogs
            /\ last' = Response(op, invite_id, 200, criteria_to_grade, result)
            /\ logs' = Append(logs, AIGradingLog(invite_id, "graded"))

ai_grade_submission(invite_id, criteria_to_grade, provider, result) ==
    LET op == "ai_grade_submission"
        rubric == First(RubricOf(invites[invite_id].assessment_id))
        criteria_to_analyze ==
            {k \in DOMAIN rubric.criteria : rubric.criteria[k].name \in criteria_to_grade}
    IN
    /\ UNCHANGED <<rubrics, invites, repos, submissions, scores, followups, agg, calls>>
    /\ IF invite_id \notin InviteIds \/ invites[invite_id] = NoInvite
       THEN /\ last' = Response(op, invite_id, 404, criteria_to_grade, <<>>)
            /\ UNCHANGED logs
       ELSE IF invites[invite_id].status # "submitted"
       THEN /\ last' = Response(op, invite_id, 400, criteria_to_grade, <<>>)
            /\ UNCHANGED logs
       ELSE IF RubricOf(invites[invite_id].assessment_id) = {}
       THEN /\ last' = Response(op, invite_id, 404, criteria_to_grade, <<>>)
            /\ UNCHANGED logs
       ELSE IF invite_id \notin repos
       THEN /\ last' = Response(op, invite_id, 404, criteria_to_grade, <<>>)
            /\ UNCHANGED logs
       ELSE IF provider = "github_error"
       THEN /\ last' = Response(op, invite_id, 500, criteria_to_grade, <<>>)
            /\ UNCHANGED logs
       ELSE IF criteria_to_analyze = {} \/ provider = "ai_error"
       THEN /\ last' = Response(op, invite_id, 500, criteria_to_grade, <<>>)
            /\ UNCHANGED logs
       ELSE /\ Len(logs) < MaxLogs
            /\ last' = Response(op, invite_id, 200, criteria_to_grade, result)
            /\ logs' = Append(logs, AIGradingLog(invite_id, "graded"))

(***************************************************************************)
(* Rankings (grading.py 323-464).  SubmissionScore.manual_rank is the      *)
(* nullable integer column the routes and RankingEntry use.                *)
(***************************************************************************)
StatusFilters == {"none", "submitted"}              \* "none": no status parameter

\* the join of 337-346 and the status filter of 349-350
RankingRows(assessment_id, status) ==
    {r \in scores :
        /\ invites[r.invite_id] # NoInvite
        /\ invites[r.invite_id].assessment_id = assessment_id
        /\ status \in {"none", "all"} \/ invites[r.invite_id].status = status}

\* ORDER BY manual_rank ASC (NULL as the smallest value), total_score DESC
SortsBeforeNullsFirst(r1, r2) ==
    \/ r1.manual_rank = NoRank /\ r2.manual_rank # NoRank
    \/ /\ r1.manual_rank # NoRank /\ r2.manual_rank # NoRank
       /\ r1.manual_rank[1] < r2.manual_rank[1]
    \/ r1.manual_rank = r2.manual_rank /\ r1.total_score > r2.total_score

\* ORDER BY total_score DESC alone
SortsBeforeScoreOnly(r1, r2) == r1.total_score > r2.total_score

\* ORDER BY manual_rank ASC NULLS LAST, total_score DESC (354-357): r1 must precede r2
SortsBefore(r1, r2) ==
    \/ r1.manual_rank # NoRank /\ r2.manual_rank = NoRank
    \/ /\ r1.manual_rank # NoRank /\ r2.manual_rank # NoRank
       /\ r1.manual_rank[1] < r2.manual_rank[1]
    \/ r1.manual_rank = r2.manual_rank /\ r1.total_score > r2.total_score

\* query.all() (359): the rows in any order the ORDER BY allows; SQL leaves the
\* order of rows with equal sort keys to the database
OrderBy(rows) ==
    {s \in [1..Cardinality(rows) -> rows] :
        /\ \A j, k \in DOMAIN s : j # k => s[j] # s[k]
        /\ \A j, k \in DOMAIN s : j < k => ~SortsBefore(s[k], s[j])}

RankingEntry(score) ==
    [invite_id |-> score.invite_id, total_score |-> score.total_score,
     manual_rank |-> score.manual_rank, status |-> invites[score.invite_id].status]

\* get_assessment_rankings (grading.py 323-376)
get_assessment_rankings(assessment_id, status) ==
    LET op == "get_assessment_rankings"
        arg == [status |-> status, top_n |-> 0, calendly |-> TRUE, email |-> TRUE]
    IN
    /\ UNCHANGED <<dbvars, agg, calls>>
    /\ IF assessment_id \notin Assessments
       THEN last' = Response(op, assessment_id, 404, arg, <<>>)
       ELSE \E results \in OrderBy(RankingRows(assessment_id, status)) :
               last' = Response(op, assessment_id, 200, arg,
                                [k \in DOMAIN results |-> RankingEntry(results[k])])

\* update_rankings_order (grading.py 427-464); rankings is the list of
\* {invite_id, manual_rank} items, applied in order
RankingItems ==
    [invite_id : {"i1", "i2", "i0"},
     manual_rank : {NoRank} \cup {<<k>> : k \in 1..MaxRank}]

RankingPayloads == UNION {[1..k -> RankingItems] : k \in 1..MaxItems}

RECURSIVE ApplyRankings(_, _)
ApplyRankings(table, rankings) ==
    IF rankings = <<>> THEN table
    ELSE LET item == Head(rankings)
             found == {r \in table : r.invite_id = item.invite_id}
             score == First(found)
         IN  IF found = {} THEN ApplyRankings(table, Tail(rankings))
             ELSE ApplyRankings(
                      (table \ {score}) \cup
                          {[score EXCEPT !.manual_rank = item.manual_rank]},
                      Tail(rankings))

update_rankings_order(assessment_id, rankings) ==
    LET op == "update_rankings_order" IN
    /\ UNCHANGED <<rubrics, invites, repos, submissions, logs, followups, agg, calls>>
    /\ IF assessment_id \notin Assessments
       THEN /\ last' = Response(op, assessment_id, 404, rankings, <<>>)
            /\ UNCHANGED scores
       ELSE /\ last' = Response(op, assessment_id, 200, rankings, <<>>)
            /\ scores' = ApplyRankings(scores, rankings)

(***************************************************************************)
(* Bulk sends to the top N of the ranking (grading.py 467-716).            *)
(***************************************************************************)
Min(a, b) == IF a < b THEN a ELSE b

\* query.limit(top_n) dropping one row too many
LimitShort(results, top_n) == SubSeq(results, 1, Min(top_n, Len(results)) - 1)

\* query.limit(top_n).all() (510, 601) on ordered rows
Limit(results, top_n) == SubSeq(results, 1, Min(top_n, Len(results)))

TopNs == 0..MaxTopN

InviteIdsOf(results) == [k \in DOMAIN results |-> results[k].invite_id]

Range(s) == {s[k] : k \in DOMAIN s}

BulkOut(selected, failed) == [selected |-> selected, failed |-> failed]

NoneSelected == BulkOut(<<>>, {})

\* send_bulk_scheduling (grading.py 467-559).  calendly: a link is configured for
\* the assessment or in settings; email: RESEND_API_KEY and EMAIL_FROM are set;
\* failing: the invites whose candidate's email send raises
send_bulk_scheduling(assessment_id, top_n, status, calendly, email, failing) ==
    LET op == "send_bulk_scheduling"
        arg == [status |-> status, top_n |-> top_n, calendly |-> calendly,
                email |-> email]
    IN
    /\ UNCHANGED <<dbvars, agg, calls>>
    /\ IF assessment_id \notin Assessments
       THEN last' = Response(op, assessment_id, 404, arg, NoneSelected)
       ELSE IF ~calendly
       THEN last' = Response(op, assessment_id, 400, arg, NoneSelected)
       ELSE \E ordered \in OrderBy(RankingRows(assessment_id, status)) :
              LET results == Limit(ordered, top_n) IN
              IF results = <<>>
              THEN last' = Response(op, assessment_id, 404, arg, NoneSelected)
              ELSE IF ~email
              THEN last' = Response(op, assessment_id, 500, arg, NoneSelected)
              ELSE last' = Response(op, assessment_id, 200, arg,
                                    BulkOut(InviteIdsOf(results),
                                            failing \cap Range(InviteIdsOf(results))))

\* The loop of send_bulk_followup (639-707) over the selected invite ids: the
\* next-stage invite is added and flushed before the email is sent, the
\* FollowUpEmail row is added after it was sent; one commit ends the loop.
RECURSIVE FollowUpLoop(_, _, _, _, _)
FollowUpLoop(selected, next_stage, failing, inv, fol) ==
    IF selected = <<>> THEN [invites |-> inv, followups |-> fol]
    ELSE LET invite_id == Head(selected)
             candidate == inv[invite_id].candidate_id
             existing_next_invite ==
                 {n \in InviteIds : /\ inv[n] # NoInvite
                                    /\ inv[n].assessment_id = next_stage
                                    /\ inv[n].candidate_id = candidate}
             inv2 == IF next_stage \in Assessments /\ existing_next_invite = {}
                     THEN [inv EXCEPT ![NextInviteId(candidate)] =
                              Invite(next_stage, candidate, "pending")]
                     ELSE inv
             fol2 == IF invite_id \in failing THEN fol ELSE Append(fol, invite_id)
         IN  FollowUpLoop(Tail(selected), next_stage, failing, inv2, fol2)

\* send_bulk_followup (grading.py 562-716)
send_bulk_followup(assessment_id, top_n, status, email, failing) ==
    LET op == "send_bulk_followup"
        arg == [status |-> status, top_n |-> top_n, calendly |-> TRUE,
                email |-> email]
    IN
    /\ UNCHANGED <<rubrics, repos, submissions, scores, logs, agg, calls>>
    /\ IF assessment_id \notin Assessments
       THEN /\ last' = Response(op, assessment_id, 404, arg, NoneSelected)
            /\ UNCHANGED <<invites, followups>>
       ELSE \E ordered \in OrderBy(RankingRows(assessment_id, status)) :
              LET results == Limit(ordered, top_n)
                  selected == InviteIdsOf(results)
                  done == FollowUpLoop(selected,
                                       next_stage_assessment_id(assessment_id),
                                       failing, invites, followups)
              IN
              IF results = <<>>
              THEN /\ last' = Response(op, assessment_id, 404, arg, NoneSelected)
                   /\ UNCHANGED <<invites, followups>>
              ELSE IF ~email
              THEN /\ last' = Response(op, assessment_id, 500, arg, NoneSelected)
                   /\ UNCHANGED <<invites, followups>>
              ELSE /\ Len(done.followups) <= MaxFollowUps
                   /\ last' = Response(op, assessment_id, 200, arg,
                                       BulkOut(selected, failing \cap Range(selected)))
                   /\ invites' = done.invites
                   /\ followups' = done.followups

(***************************************************************************)
(* Specifications.                                                         *)
(***************************************************************************)
\* criteria_scores payloads of the grading requests
GradePayloads ==
    { [a |-> Score(80, 100), b |-> Score(3, 5)],
      [a |-> Score(50, 100)],
      [b |-> Score(3, 5)],
      [a |-> Score(80, 100), z |-> Score(3, 0)],
      [a |-> Score(3, 0)],
      [a |-> Score(3, -5)],
      [a |-> Score(8, 5)] }

\* criteria_scores the AI provider returns
AIResults == { [a |-> Score(80, 100), b |-> Score(3, 5)], [a |-> Score(3, 0)] }

Providers == {"ok", "github_error", "ai_error"}

\* Rubrics, manual grading and the candidate's path through one invite.
Init == InitDB /\ agg = NoCall /\ calls = NoCalls

Next ==
    \/ \E a \in {"A1", "A0"}, criteria \in RubricPayloads : create_rubric(a, criteria)
    \/ delete_rubric("A1")
    \/ \E i \in {"i1", "i2", "i0"}, cs \in GradePayloads :
          create_or_update_score(i, cs, "admin", "manual")
    \/ \E i \in {"i1", "i2"} : delete_score(i)
    \/ StartDeadlinePasses("i1")
    \/ \E i \in {"i1", "i0"}, github_ok \in BOOLEAN : start_assessment(i, github_ok)
    \/ \E i \in {"i1", "i0"}, provider \in Providers, result \in AIResults :
          submit_assessment(i, provider, result)

Spec == Init /\ [][Next]_vars

\* The aggregator alone, over all its inputs.
InitAgg ==
    /\ InitDB
    /\ agg \in {[NoCall EXCEPT !.criteria_scores = cs, !.rubric = r] :
                   cs \in CriteriaScores, r \in ValidRubrics}
    /\ calls = NoCalls

NextAgg == Aggregate

SpecAgg == InitAgg /\ [][NextAgg]_vars

\* Ranking and bulk sends over a graded cohort: i1 and i2 have submitted, i3 has
\* started, and assessment A1 has a rubric.
RankPayloads == { [a |-> Score(80, 100)], [a |-> Score(50, 100)] }

InitRank ==
    /\ rubrics = {[assessment_id |-> "A1", criteria |-> <<Criterion("a", 100)>>]}
    /\ invites = [InitInvites EXCEPT !["i1"].status = "submitted",
                                     !["i2"].status = "submitted",
                                     !["i3"].status = "started"]
    /\ repos = {"i1", "i2", "i3"}
    /\ submissions = {"i1", "i2"}
    /\ scores = {}
    /\ logs = <<>>
    /\ followups = <<>>
    /\ last = NoRequest
    /\ agg = NoCall
    /\ calls = NoCalls

NextRank ==
    \/ \E i \in {"i1", "i2", "i3"}, cs \in RankPayloads :
          create_or_update_score(i, cs, "admin", "manual")
    \/ \E a \in {"A1", "A0"}, rankings \in RankingPayloads :
          update_rankings_order(a, rankings)
    \/ \E a \in AssessmentIds, status \in StatusFilters :
          get_assessment_rankings(a, status)

SpecRank == InitRank /\ [][NextRank]_vars

\* Bulk sends over the same cohort, graded but not reordered.
\* The scheduling link, the email service and the invites whose email send
\* raises: all configured and working, one send failing, or one piece missing.
Deliveries ==
    { [calendly |-> TRUE, email |-> TRUE, failing |-> {}],
      [calendly |-> TRUE, email |-> TRUE, failing |-> {"i1"}],
      [calendly |-> FALSE, email |-> TRUE, failing |-> {}],
      [calendly |-> TRUE, email |-> FALSE, failing |-> {}] }

BulkRequest(assessment_id, top_n, status, delivery) ==
    [assessment_id |-> assessment_id, top_n |-> top_n, status |-> status,
     calendly |-> delivery.calendly, email |-> delivery.email,
     failing |-> delivery.failing]

\* every request for assessment A1, and one for an assessment that does not exist
BulkRequests ==
    {BulkRequest("A1", top_n, status, d) :
        top_n \in TopNs, status \in StatusFilters, d \in Deliveries}
    \cup {BulkRequest("A0", 1, "submitted",
                      [calendly |-> TRUE, email |-> TRUE, failing |-> {}])}

NextBulk ==
    \/ \E i \in {"i1", "i2", "i3"}, cs \in RankPayloads :
          create_or_update_score(i, cs, "admin", "manual")
    \/ \E a \in {"A1", "A0"}, status \in StatusFilters :
          get_assessment_rankings(a, status)
    \/ \E r \in BulkRequests :
          send_bulk_scheduling(r.assessment_id, r.top_n, r.status, r.calendly,
                               r.email, r.failing)
    \/ \E r \in {q \in BulkRequests : q.calendly} :
          send_bulk_followup(r.assessment_id, r.top_n, r.status, r.email, r.failing)

SpecBulk == InitRank /\ [][NextBulk]_vars

\* AI grading next to manual grading: assessment A1 has the rubric {a: 0.5,
\* b: 0.5}; i1 has started, i2 has submitted, i3 has expired (it was opened after
\* its start deadline); n3, of assessment A2, is pending.
CriteriaToGrade == { {"a"}, {"a", "b"}, {}, {OtherName} }

AIPayloads == { [a |-> Score(80, 100), b |-> Score(3, 5)], [a |-> Score(50, 100)] }

InitAI ==
    /\ rubrics = {[assessment_id |-> "A1",
                   criteria |-> <<Criterion("a", 50), Criterion("b", 50)>>]}
    /\ invites = [InitInvites EXCEPT !["i1"].status = "started",
                                     !["i2"].status = "submitted",
                                     !["i3"].status = "expired",
                                     !["i3"].late = TRUE]
    /\ repos = {"i1", "i2"}
    /\ submissions = {"i2"}
    /\ scores = {}
    /\ logs = <<>>
    /\ followups = <<>>
    /\ last = NoRequest
    /\ agg = NoCall
    /\ calls = NoCalls

NextAI ==
    \/ \E i \in {"i1", "i2"}, cs \in AIPayloads :
          create_or_update_score(i, cs, "admin", "manual")
    \/ delete_score("i2")
    \/ \E provider \in Providers, result \in AIResults :
          submit_assessment("i1", provider, result)
    \/ \E i \in {"i1", "i2", "i3", "n3", "i0"}, criteria_to_grade \in CriteriaToGrade,
          provider \in Providers, result \in AIResults :
          ai_grade_submission(i, criteria_to_grade, provider, result)
    \/ \E rankings \in {p \in RankingPayloads : Len(p) = 1 /\ p[1].invite_id = "i2"} :
          update_rankings_order("A1", rankings)
    \/ \E status \in StatusFilters : get_assessment_rankings("A1", status)

SpecAI == InitAI /\ [][NextAI]_vars

\* Two connections grading the graded cohort's invite i1 at the same time.
InitRace == InitRank

NextRace ==
    \/ \E c \in CallIds, i \in {"i1", "i0"}, cs \in RankPayloads, g \in Graders :
          score_begin(c, i, cs, g, "manual")
    \/ \E c \in CallIds : score_commit(c)

SpecRace == InitRace /\ [][NextRace]_vars

\* Rubric payloads by their criterion names: a name twice, two names, one name.
NamePayloads ==
    { <<Criterion("a", 50), Criterion("a", 50)>>,
      <<Criterion("a", 50), Criterion("b", 50)>>,
      <<Criterion("a", 100)>> }

NextNames ==
    \/ \E a \in {"A1", "A0"}, criteria \in NamePayloads : create_rubric(a, criteria)
    \/ delete_rubric("A1")
    \/ \E i \in {"i1", "i2"}, cs \in AIPayloads :
          create_or_update_score(i, cs, "admin", "manual")

SpecNames == Init /\ [][NextNames]_vars

\* Reorder requests for every assessment over the scores of the graded cohort.
NextReorder ==
    \/ \E i \in {"i1", "i2"}, cs \in RankPayloads :
          create_or_update_score(i, cs, "admin", "manual")
    \/ \E a \in AssessmentIds, rankings \in RankingPayloads :
          update_rankings_order(a, rankings)

SpecReorder == InitRank /\ [][NextReorder]_vars

\* The candidate's path through two invites as time passes both deadlines.
NextDeadline ==
    \/ StartDeadlinePasses("i1")
    \/ \E i \in {"i1", "i2"}, github_ok \in BOOLEAN : start_assessment(i, github_ok)
    \/ \E i \in {"i1", "i2"} : CompleteDeadlinePasses(i)
    \/ \E i \in {"i1", "i2"}, provider \in Providers, result \in AIResults :
          submit_assessment(i, provider, result)

SpecDeadline == Init /\ [][NextDeadline]_vars

(***************************************************************************)
(* Properties.                                                             *)
(***************************************************************************)
\* The exact sum, over the rubric criteria from position i on whose name is in
\* names and is a key of criteria_scores, of (score / max_score) * 100 * weight.
RECURSIVE ExactTotal(_, _, _, _)
ExactTotal(criteria_scores, rubric_criteria, names, i) ==
    IF i > Len(rubric_criteria) THEN Rat(0, 1)
    ELSE LET c == rubric_criteria[i]
             rest == ExactTotal(criteria_scores, rubric_criteria, names, i + 1)
         IN  IF c.name \in names \cap DOMAIN criteria_scores
             THEN RatAdd(Rat(criteria_scores[c.name].score * c.weight,
                             criteria_scores[c.name].max_score), rest)
             ELSE rest

\* h hundredths is a multiple of 0.01 nearest to the rational x
NearestHundredth(h, x) == 2 * Abs(100 * x.n - h * x.d) <= x.d

\* some record that a rubric criterion matches, among names, has max_score = 0
MatchedZeroMax(criteria_scores, rubric_criteria, names) ==
    \E k \in DOMAIN rubric_criteria :
        /\ rubric_criteria[k].name \in names \cap DOMAIN criteria_scores
        /\ criteria_scores[rubric_criteria[k].name].max_score = 0

RubricNamesOf(rubric_criteria) ==
    {rubric_criteria[k].name : k \in DOMAIN rubric_criteria}

\* C1: a create_rubric request whose weights sum outside [0.99, 1.01] is answered
\* with a validation error (400, or 422 from the field constraints) and leaves the
\* stored rubrics as they were: none is created, an existing one keeps its criteria.
C1_BadWeightsRejected ==
    [][ ( /\ last'.op = "create_rubric"
          /\ (SumWeights(last'.arg) < 99 \/ SumWeights(last'.arg) > 101) )
        => ( /\ last'.code \in {400, 422}
             /\ rubrics' = rubrics ) ]_vars

\* C1 witness: weights summing to 0.98 or 1.02 were refused while the assessment
\* had a rubric, which is still stored.
C1_Witness ==
    /\ last.op = "create_rubric"
    /\ last.code = 400
    /\ SumWeights(last.arg) \in {98, 102}
    /\ RubricOf(last.id) # {}

\* C2: whenever no matched record has max_score = 0, calculate_weighted_score
\* returns the sum over the rubric criteria whose name is a key of criteria_scores
\* of (score / max_score) * 100 * weight, rounded to 2 decimals; {a:(80,100),
\* b:(3,5)} with weights 0.5 and 0.5 gives 70.00, {a:(50,100)} with weight 1.0
\* gives 50.00.
C2_WeightedSum ==
    agg.called =>
        /\ ~MatchedZeroMax(agg.criteria_scores, agg.rubric, DOMAIN agg.criteria_scores)
           => /\ ~agg.full.raised
              /\ NearestHundredth(agg.full.value,
                     ExactTotal(agg.criteria_scores, agg.rubric,
                                DOMAIN agg.criteria_scores, 1))
        /\ ( /\ agg.criteria_scores = [a |-> Score(80, 100), b |-> Score(3, 5)]
             /\ agg.rubric = <<Criterion("a", 50), Criterion("b", 50)>> )
           => agg.full = Returned(7000)
        /\ ( /\ agg.criteria_scores = [a |-> Score(50, 100)]
             /\ agg.rubric = <<Criterion("a", 100)>> )
           => agg.full = Returned(5000)

\* C2 witness: the first example has been computed, and gave 70.00.
C2_Witness ==
    /\ agg.called
    /\ agg.criteria_scores = [a |-> Score(80, 100), b |-> Score(3, 5)]
    /\ agg.rubric = <<Criterion("a", 50), Criterion("b", 50)>>
    /\ agg.full = Returned(7000)

C4_ReplaceNotMerge ==
    ( /\ last.op = "create_or_update_score"
      /\ last.code = 201
      /\ last.out # <<>>
      /\ DOMAIN last.out[1].criteria_scores \cap DOMAIN last.arg = {} )
    => ( /\ Cardinality(ScoreOf(last.id)) = 1
         /\ \A r \in ScoreOf(last.id) : r.criteria_scores = last.arg )

\* C4 witness: a second call with disjoint criteria replaced a non-empty record.
C4_Witness ==
    /\ last.op = "create_or_update_score"
    /\ last.code = 201
    /\ last.out # <<>>
    /\ DOMAIN last.out[1].criteria_scores # {}
    /\ DOMAIN last.out[1].criteria_scores \cap DOMAIN last.arg = {}
    /\ \E r \in ScoreOf(last.id) : DOMAIN r.criteria_scores = DOMAIN last.arg

\* C5: after a successful create_or_update_score the invite's stored total_score
\* is calculate_weighted_score of the criteria_scores that call stored and the
\* assessment's rubric, whatever the previous record's total was.
C5_TotalRecomputed ==
    ( last.op = "create_or_update_score" /\ last.code = 201 )
    => ( /\ ScoreOf(last.id) # {}
         /\ \A r \in ScoreOf(last.id) :
               /\ r.criteria_scores = last.arg
               /\ Returned(r.total_score) =
                     calculate_weighted_score(
                         r.criteria_scores,
                         First(RubricOf(invites[last.id].assessment_id)).criteria) )

\* C5 witness: an update stored a total different from the replaced record's.
C5_Witness ==
    /\ last.op = "create_or_update_score"
    /\ last.code = 201
    /\ last.out # <<>>
    /\ \E r \in ScoreOf(last.id) : r.total_score # last.out[1].total_score

BulkOps == {"send_bulk_scheduling", "send_bulk_followup"}

\* the response is a ranking of an existing assessment
IsRanking(response) ==
    response.op = "get_assessment_rankings" /\ response.code = 200

\* C6: get_assessment_rankings returns the scored invites of the assessment that
\* pass the status filter, every entry with a manual_rank before every entry
\* without one whatever their scores (so an only ranked entry is first), the
\* ranked ones by ascending manual_rank, and entries of equal manual_rank by
\* descending total_score.
C6_RankingOrder ==
    IsRanking(last) =>
        LET out == last.out IN
        /\ {out[k].invite_id : k \in DOMAIN out} =
               {r.invite_id : r \in RankingRows(last.id, last.arg.status)}
        /\ Len(out) = Cardinality(RankingRows(last.id, last.arg.status))
        /\ \A j, k \in DOMAIN out :
              j < k =>
                 /\ out[j].manual_rank = NoRank => out[k].manual_rank = NoRank
                 /\ (out[j].manual_rank # NoRank /\ out[k].manual_rank # NoRank)
                       => out[j].manual_rank[1] <= out[k].manual_rank[1]
                 /\ out[j].manual_rank = out[k].manual_rank
                       => out[j].total_score >= out[k].total_score
        /\ Cardinality({k \in DOMAIN out : out[k].manual_rank # NoRank}) = 1
              => out[1].manual_rank # NoRank

\* C6 witness: the only ranked entry is first, ahead of an unranked entry with a
\* higher total_score, and two unranked entries follow by descending total_score.
C6_Witness ==
    /\ IsRanking(last)
    /\ Len(last.out) = 3
    /\ last.out[1].manual_rank # NoRank
    /\ last.out[2].manual_rank = NoRank
    /\ last.out[3].manual_rank = NoRank
    /\ last.out[1].total_score < last.out[2].total_score
    /\ last.out[2].total_score > last.out[3].total_score

\* C7: two ranking queries for the same assessment and status filter, with no
\* change of the persisted state between them, return the entries in the same
\* order.
C7_SameOrderTwice ==
    [][ ( /\ IsRanking(last)
          /\ IsRanking(last')
          /\ last'.id = last.id
          /\ last'.arg = last.arg
          /\ UNCHANGED dbvars )
        => last'.out = last.out ]_vars

\* the pool a bulk send selects from: the ranking rows of its assessment and filter
PoolOf(response) == RankingRows(response.id, response.arg.status)

\* C8 as the specification states it: a bulk send with top_n above the size M of
\* the ranked pool, the scheduling link and the email service being configured,
\* selects all M entries and does not end in an error.
C8_ShortPoolAllSelected ==
    ( /\ last.op \in BulkOps
      /\ last.id \in Assessments
      /\ last.arg.calendly
      /\ last.arg.email
      /\ Cardinality(PoolOf(last)) < last.arg.top_n )
    => ( /\ last.code = 200
         /\ Range(last.out.selected) = {r.invite_id : r \in PoolOf(last)} )

\* C8, amended: a bulk send with top_n above the size M of a pool that is not
\* empty (1 <= M < N), the scheduling link and the email service being
\* configured, succeeds and selects every one of the M entries once.
C8_ShortPoolNotEmpty ==
    ( /\ last.op \in BulkOps
      /\ last.id \in Assessments
      /\ last.arg.calendly
      /\ last.arg.email
      /\ 1 <= Cardinality(PoolOf(last))
      /\ Cardinality(PoolOf(last)) < last.arg.top_n )
    => ( /\ last.code = 200
         /\ Len(last.out.selected) = Cardinality(PoolOf(last))
         /\ Range(last.out.selected) = {r.invite_id : r \in PoolOf(last)} )

\* C8 witness: send_bulk_followup with top_n = 3 over a pool of 2 selected both.
C8_Witness ==
    /\ last.op = "send_bulk_followup"
    /\ last.code = 200
    /\ last.arg.top_n = 3
    /\ Cardinality(PoolOf(last)) = 2
    /\ Len(last.out.selected) = 2

\* C9: a bulk send with top_n = n that follows a ranking query for the same
\* assessment and status filter, on the persisted state that query saw, selects
\* exactly the first n entries of the returned ranking.
C9_BulkIsRankingPrefix ==
    [][ ( /\ IsRanking(last)
          /\ last'.op \in BulkOps
          /\ last'.code = 200
          /\ last'.id = last.id
          /\ last'.arg.status = last.arg.status )
        => last'.out.selected =
              InviteIdsOf(SubSeq(last.out, 1, Min(last'.arg.top_n, Len(last.out)))) ]_vars

\* some criterion record of the mapping has max_score = 0
HasZeroMax(criteria_scores) ==
    \E n \in DOMAIN criteria_scores : criteria_scores[n].max_score = 0

\* C10: a grading call in which some criterion record has max_score = 0 (manual,
\* for an invite whose assessment has a rubric; or automatic at submission) ends
\* in an error and stores no SubmissionScore with these criteria.
C10_ZeroMaxScoreFails ==
    /\ ( /\ last.op = "create_or_update_score"
         /\ last.code # 404
         /\ HasZeroMax(last.arg) )
       => ( /\ last.code = 500
            /\ \A r \in ScoreOf(last.id) : r.criteria_scores # last.arg )
    /\ ( /\ last.op = "submit_assessment"
         /\ last.code = 200
         /\ last.out # "skipped"
         /\ HasZeroMax(last.arg) )
       => ( /\ last.out = "error"
            /\ \A r \in ScoreOf(last.id) : r.criteria_scores # last.arg )

\* some criterion record of the mapping has a negative max_score
HasNegativeMax(criteria_scores) ==
    \E n \in DOMAIN criteria_scores : criteria_scores[n].max_score < 0

\* C11: a grading call in which some criterion record has a negative max_score
\* (manual, for an invite whose assessment has a rubric; or automatic at
\* submission) is rejected with an error, and no stored SubmissionScore holds a
\* record with max_score < 0.
C11_NegativeMaxScoreRejected ==
    /\ ( /\ last.op = "create_or_update_score"
         /\ last.code # 404
         /\ HasNegativeMax(last.arg) )
       => last.code \notin {200, 201}
    /\ ( /\ last.op = "submit_assessment"
         /\ last.code = 200
         /\ last.out # "skipped"
         /\ HasNegativeMax(last.arg) )
       => last.out = "error"
    /\ \A r \in scores : ~HasNegativeMax(r.criteria_scores)

\* C12: every stored SubmissionScore has 0 <= total_score <= 100.
C12_TotalInRange ==
    \A r \in scores : 0 <= r.total_score /\ r.total_score <= 10000

\* C13: submit_assessment on an invite in status started that has a candidate
\* repo ends with a success response, the invite in status submitted and its
\* Submission row stored, whatever the automatic grading that follows did.
C13_SubmissionNeverBlocked ==
    [][ ( /\ last'.op = "submit_assessment"
          /\ last'.id \in InviteIds
          /\ invites[last'.id].status = "started"
          /\ last'.id \in repos )
        => ( /\ last'.code = 200
             /\ invites'[last'.id].status = "submitted"
             /\ last'.id \notin submissions
             /\ last'.id \in submissions' ) ]_vars

\* C13 witness: a submission was accepted although its automatic grading failed.
C13_Witness ==
    /\ last.op = "submit_assessment"
    /\ last.code = 200
    /\ last.out = "error"
    /\ invites[last.id].status = "submitted"
    /\ last.id \in submissions
    /\ ScoreOf(last.id) = {}

C15_AIGradeFailureSurfaced ==
    [][ last'.op = "ai_grade_submission"
        => \A provider \in Providers \ {"ok"}, result \in AIResults :
              LET i == last'.id IN
              ( /\ ai_grade_submission(i, last'.arg, provider, result)
                /\ i \in InviteIds
                /\ invites[i].status = "submitted"
                /\ RubricOf(invites[i].assessment_id) # {}
                /\ i \in repos )
              => ( /\ last'.code = 500
                   /\ logs' = logs
                   /\ scores' = scores ) ]_vars

\* C15 witness: a failed operator-triggered AI grading of a submitted, manually
\* graded invite, after an earlier successful one: answered 500, one log row.
C15_Witness ==
    /\ last.op = "ai_grade_submission"
    /\ last.code = 500
    /\ last.arg = {"a"}
    /\ invites[last.id].status = "submitted"
    /\ ScoreOf(last.id) # {}
    /\ Len(logs) = 1

\* the response reports a successful AI grading
IsAIGraded(response) ==
    \/ response.op = "ai_grade_submission" /\ response.code = 200
    \/ response.op = "submit_assessment" /\ response.code = 200
                                         /\ response.out = "graded"

\* C16: every successful AI grading (ai_grade_submission, automatic grading at
\* submission) adds exactly one AIGradingLog row, for its invite, and no manual
\* grading, ranking, reorder or score deletion touches the log: the rows already
\* stored are never modified or removed.
C16_LogOnlyGrows ==
    [][ /\ Len(logs') >= Len(logs)
        /\ SubSeq(logs', 1, Len(logs)) = logs
        /\ IsAIGraded(last')
              => /\ Len(logs') = Len(logs) + 1
                 /\ logs'[Len(logs')].invite_id = last'.id
        /\ last'.op \in {"create_or_update_score", "delete_score",
                         "get_assessment_rankings", "update_rankings_order"}
              => logs' = logs ]_vars

\* C16 witness: two rows were logged, and the deletion of the score of an
\* invite that has a row left both.
C16_Witness ==
    /\ Len(logs) = 2
    /\ last.op = "delete_score"
    /\ last.code = 204
    /\ \E k \in DOMAIN logs : logs[k].invite_id = last.id

\* a SubmissionScore row without its manual_rank
ScoreFields(r) ==
    [invite_id |-> r.invite_id, criteria_scores |-> r.criteria_scores,
     total_score |-> r.total_score, graded_by |-> r.graded_by, notes |-> r.notes]

\* C17: create_or_update_score on an invite that has a SubmissionScore leaves
\* its manual_rank (and every other invite's row) unchanged, and
\* update_rankings_order changes nothing but manual_rank: criteria_scores,
\* total_score, graded_by and notes of every score stay as they were.
C17_RankIndependentOfScore ==
    [][ /\ ( /\ last'.op = "create_or_update_score"
             /\ last'.code = 201
             /\ ScoreOf(last'.id) # {} )
           => /\ \A old \in ScoreOf(last'.id) :
                    \E new \in scores' : /\ new.invite_id = old.invite_id
                                         /\ new.manual_rank = old.manual_rank
              /\ {r \in scores' : r.invite_id # last'.id} =
                     {r \in scores : r.invite_id # last'.id}
              /\ Cardinality(scores') = Cardinality(scores)
        /\ last'.op = "update_rankings_order"
           => /\ {ScoreFields(r) : r \in scores'} = {ScoreFields(r) : r \in scores}
              /\ Cardinality(scores') = Cardinality(scores) ]_vars

\* C17 witness: a regrade changed the total of a score that had a manual_rank,
\* and the manual_rank is still there.
C17_Witness ==
    /\ last.op = "create_or_update_score"
    /\ last.code = 201
    /\ last.out # <<>>
    /\ last.out[1].manual_rank # NoRank
    /\ \E r \in ScoreOf(last.id) : /\ r.manual_rank = last.out[1].manual_rank
                                   /\ r.total_score # last.out[1].total_score

\* C18: there is at most one SubmissionScore per invite, after any sequence of
\* manual gradings, automatic gradings at submission and score deletions.
C18_OneScorePerInvite ==
    \A r1, r2 \in scores : r1.invite_id = r2.invite_id => r1 = r2

\* C18 witness: an invite with a manual score was submitted and graded by the
\* AI; it still has one score, the manual one, beside another invite's score.
C18_Witness ==
    /\ last.op = "submit_assessment"
    /\ last.code = 200
    /\ last.out = "error"
    /\ Cardinality(ScoreOf(last.id)) = 1
    /\ Cardinality(scores) = 2
    /\ ~HasZeroMax(last.arg)

\* C19: after a manual grade of all rubric criteria of an invite, a successful
\* ai_grade_submission for a strict subset of the criteria leaves the stored
\* criteria_scores with the AI-graded subset only and the total_score
\* recomputed from it.
C19_AIGradeReplacesManual ==
    [][ ( /\ last'.op = "ai_grade_submission"
          /\ last'.code = 200
          /\ \E old \in ScoreOf(last'.id) :
                /\ old.graded_by = "admin"
                /\ DOMAIN old.criteria_scores =
                      RubricNamesOf(First(RubricOf(invites[last'.id].assessment_id)).criteria)
                /\ last'.arg # {}
                /\ last'.arg \subseteq DOMAIN old.criteria_scores
                /\ last'.arg # DOMAIN old.criteria_scores )
        => \A r \in scores' :
              r.invite_id = last'.id
              => /\ DOMAIN r.criteria_scores = last'.arg
                 /\ Returned(r.total_score) =
                       calculate_weighted_score(
                           r.criteria_scores,
                           First(RubricOf(invites[last'.id].assessment_id)).criteria) ]_vars

\* C20: in every interleaving of create_or_update_score calls for an invite,
\* each call completes with success and the record stored when it has
\* committed is exactly its own: criteria_scores, total_score, graded_by and
\* notes all come from the call that committed last.
C20_LastWriterWins ==
    [][ \A c \in CallIds :
           ( calls[c].pc = "read" /\ calls'[c].pc = "done" )
           => /\ calls'[c].code = 201
              /\ \E r \in scores' :
                    /\ r.invite_id = calls[c].invite_id
                    /\ r.criteria_scores = calls[c].criteria_scores
                    /\ r.total_score = calls[c].total_score
                    /\ r.graded_by = calls[c].graded_by
                    /\ r.notes = calls[c].notes ]_vars

\* C21: create_or_update_score for an invite that does not exist, or for an
\* invite whose assessment has no rubric, is answered with not found (404) and
\* creates or modifies no SubmissionScore.
C21_ScoreNotFound ==
    [][ ( /\ last'.op = "create_or_update_score"
          /\ \/ last'.id \notin InviteIds
             \/ invites[last'.id] = NoInvite
             \/ RubricOf(invites[last'.id].assessment_id) = {} )
        => ( /\ last'.code = 404
             /\ scores' = scores ) ]_vars

\* C21 witness: an invite was graded, the rubric of its assessment was deleted,
\* and a further grading call for it was answered 404; its score is as it was.
C21_Witness ==
    /\ last.op = "create_or_update_score"
    /\ last.code = 404
    /\ last.id \in InviteIds
    /\ invites[last.id] # NoInvite
    /\ RubricOf(invites[last.id].assessment_id) = {}
    /\ \E r \in ScoreOf(last.id) : r.criteria_scores # last.arg

\* C22: every stored rubric has pairwise distinct criterion names: a payload
\* with two criteria of the same name is never persisted, so no score record is
\* weighted more than once by the aggregator.
C22_DistinctCriterionNames ==
    \A r \in rubrics :
        \A j, k \in DOMAIN r.criteria :
            j # k => r.criteria[j].name # r.criteria[k].name

\* the scores of an assessment that have a manual_rank
RankedRows(assessment_id) ==
    {r \in RankingRows(assessment_id, "none") : r.manual_rank # NoRank}

\* C23: when k graded invites of an assessment hold the manual_rank values 1..k
\* given by update_rankings_order, one each, and every other score of the
\* assessment has none, get_assessment_rankings without status filter lists those
\* k invites at positions 1..k in manual_rank order, followed by all remaining
\* graded invites in descending total_score.
C23_PromotedFirst ==
    ( IsRanking(last) /\ last.arg.status = "none" ) =>
        LET out == last.out
            ranked == RankedRows(last.id)
            k == Cardinality(ranked)
        IN  {r.manual_rank[1] : r \in ranked} = 1..k
            => /\ Len(out) = Cardinality(RankingRows(last.id, "none"))
               /\ {out[j].invite_id : j \in DOMAIN out} =
                      {r.invite_id : r \in RankingRows(last.id, "none")}
               /\ \A j \in 1..k :
                     \E r \in ranked : /\ r.manual_rank = <<j>>
                                       /\ out[j].invite_id = r.invite_id
                                       /\ out[j].manual_rank = <<j>>
               /\ \A j \in (k + 1)..Len(out) : out[j].manual_rank = NoRank
               /\ \A j, m \in (k + 1)..Len(out) :
                     j < m => out[j].total_score >= out[m].total_score

\* C23 witness: two invites were promoted to ranks 1 and 2, the first with a
\* lower total_score than the second, and a third, unranked invite follows them.
C23_Witness ==
    /\ IsRanking(last)
    /\ last.arg.status = "none"
    /\ Len(last.out) = 3
    /\ last.out[1].manual_rank = <<1>>
    /\ last.out[2].manual_rank = <<2>>
    /\ last.out[3].manual_rank = NoRank
    /\ last.out[1].total_score < last.out[2].total_score

\* C24: ai_grade_submission on an invite whose status is pending, started or
\* expired is rejected with an error (400) whatever the source-control and AI
\* providers would have answered, so before either is called, and writes no
\* AIGradingLog row and no score.
C24_NotSubmittedRejected ==
    [][ ( /\ last'.op = "ai_grade_submission"
          /\ last'.id \in InviteIds
          /\ invites[last'.id].status \in {"pending", "started", "expired"} )
        => ( /\ last'.code = 400
             /\ logs' = logs
             /\ scores' = scores
             /\ \A provider \in Providers, result \in AIResults :
                   ai_grade_submission(last'.id, last'.arg, provider, result) ) ]_vars

\* C24 witness: after a logged AI grading of another invite, a call for an
\* expired invite was answered 400.
C24_Witness ==
    /\ last.op = "ai_grade_submission"
    /\ last.code = 400
    /\ invites[last.id].status = "expired"
    /\ Len(logs) >= 1

\* C25: when the automatic grading at submission obtains scores from the AI
\* provider for an invite that already has a SubmissionScore, the stored record
\* afterwards holds exactly the AI scores, the total recomputed from them and
\* graded_by "AI Auto-Grading".
C25_AutoGradeReplaces ==
    [][ ( last'.op = "submit_assessment" /\ last'.code = 200 )
        => LET i == last'.id
               result == last'.arg
               criteria == First(RubricOf(invites[i].assessment_id)).criteria
           IN  ( /\ submit_assessment(i, "ok", result)
                 /\ RubricOf(invites[i].assessment_id) # {}
                 /\ ~MatchedZeroMax(result, criteria, DOMAIN result)
                 /\ ScoreOf(i) # {} )
               => \A r \in scores' :
                     r.invite_id = i
                     => /\ r.criteria_scores = result
                        /\ Returned(r.total_score) =
                              calculate_weighted_score(result, criteria)
                        /\ r.graded_by = AutoGrader ]_vars

\* C26: in every reachable state each stored SubmissionScore's total_score equals
\* calculate_weighted_score of its stored criteria_scores and the current rubric
\* of the invite's assessment, also after create_rubric replaced that rubric's
\* criteria in place.
C26_TotalMatchesCurrentRubric ==
    \A r \in scores :
        LET a == invites[r.invite_id].assessment_id IN
        RubricOf(a) # {}
        => Returned(r.total_score) =
              calculate_weighted_score(r.criteria_scores, First(RubricOf(a)).criteria)

\* C27: update_rankings_order called for assessment A changes manual_rank only
\* on SubmissionScores whose invite belongs to A; items naming an invite of
\* another assessment, an unknown invite or an invite without a score change
\* nothing.
C27_ReorderOwnAssessmentOnly ==
    [][ last'.op = "update_rankings_order"
        => /\ \A r \in scores :
                 invites[r.invite_id].assessment_id # last'.id => r \in scores'
           /\ {ScoreFields(r) : r \in scores'} = {ScoreFields(r) : r \in scores} ]_vars

\* the step is the request op for invite i, answered with code
Answered(op, i, code) == last'.op = op /\ last'.id = i /\ last'.code = code

\* C28: an invite's status changes only along pending -> started (start_assessment
\* with the repository provisioned), pending -> expired (start_assessment after
\* the start deadline) and started -> submitted (submit_assessment);
\* submit_assessment on an invite that is not started and start_assessment on an
\* invite that is started or submitted are rejected with no state change; a
\* submitted invite keeps its status; a Submission row is added only by an
\* accepted submit for an invite that had none, and every invite with a
\* Submission row is submitted.
C28_InviteLifecycle ==
    [][ /\ \A i \in InviteIds :
              invites'[i].status # invites[i].status
              => \/ /\ invites[i].status = "pending"
                    /\ invites'[i].status = "started"
                    /\ Answered("start_assessment", i, 200)
                 \/ /\ invites[i].status = "pending"
                    /\ invites'[i].status = "expired"
                    /\ invites[i].late
                    /\ Answered("start_assessment", i, 400)
                 \/ /\ invites[i].status = "started"
                    /\ invites'[i].status = "submitted"
                    /\ Answered("submit_assessment", i, 200)
        /\ ( /\ last'.op = "submit_assessment"
             /\ last'.id \in InviteIds
             /\ invites[last'.id] # NoInvite
             /\ invites[last'.id].status # "started" )
           => ( last'.code = 400 /\ UNCHANGED dbvars )
        /\ ( /\ last'.op = "start_assessment"
             /\ last'.id \in InviteIds
             /\ invites[last'.id].status \in {"started", "submitted"} )
           => ( last'.code = 400 /\ UNCHANGED dbvars )
        /\ \A i \in InviteIds :
              invites[i].status = "submitted" => invites'[i].status = "submitted"
        /\ submissions' # submissions
           => /\ last'.id \notin submissions
              /\ submissions' = submissions \cup {last'.id}
              /\ Answered("submit_assessment", last'.id, 200)
        /\ \A i \in submissions' : invites'[i].status = "submitted" ]_vars

\* C28 witness: an invite went from pending through started to submitted, has
\* its Submission row, and a further start_assessment for it was refused.
C28_Witness ==
    /\ last.op = "start_assessment"
    /\ last.code = 400
    /\ invites[last.id].status = "submitted"
    /\ last.id \in submissions

\* C29: submit_assessment is accepted only while the invite's completion
\* deadline has not passed: a submit after it is rejected, the invite does not
\* become submitted and no Submission row is stored.
C29_SubmitBeforeDeadline ==
    [][ ( /\ last'.op = "submit_assessment"
          /\ last'.id \in InviteIds
          /\ invites[last'.id].overdue )
        => ( /\ last'.code # 200
             /\ invites'[last'.id].status # "submitted"
             /\ last'.id \notin submissions' ) ]_vars

\* the invites a candidate has for an assessment, in the table inv
InvitesFor(inv, assessment_id, candidate_id) ==
    {n \in InviteIds : /\ inv[n] # NoInvite
                       /\ inv[n].assessment_id = assessment_id
                       /\ inv[n].candidate_id = candidate_id}

\* C30: in send_bulk_followup with a next-stage assessment configured, a
\* candidate whose email send fails is reported in failed_emails, gets no
\* FollowUpEmail record and no new next-stage invite, and each candidate has at
\* most one invite for the next-stage assessment afterwards.
C30_NextStageOnlyIfSent ==
    [][ ( /\ last'.op = "send_bulk_followup"
          /\ last'.code = 200
          /\ next_stage_assessment_id(last'.id) \in Assessments )
        => LET next_stage == next_stage_assessment_id(last'.id)
               added == SubSeq(followups', Len(followups) + 1, Len(followups'))
           IN  /\ \A i \in last'.out.failed :
                     /\ i \notin Range(added)
                     /\ InvitesFor(invites', next_stage, invites[i].candidate_id) =
                            InvitesFor(invites, next_stage, invites[i].candidate_id)
               /\ \A i \in Range(last'.out.selected) :
                     Cardinality(InvitesFor(invites', next_stage,
                                            invites[i].candidate_id)) <= 1 ]_vars

====
